---- MODULE Spec2Model ----
(***************************************************************************)
(* Model of the todo-list client (React + TanStack Query v5).              *)
(*                                                                         *)
(* Two versions of the App component are in the repository and both are    *)
(* modelled; the variable `variant` says which one is mounted:             *)
(*   "observer" : src/src/App.tsx (same code as src/unnamed/part_001):     *)
(*                initialPageParam 1, getNextPageParam reads               *)
(*                lastPage.nextPage, a hand-made IntersectionObserver;     *)
(*   "inView"   : src/unnamed/part_000: initialPageParam 0,                *)
(*                getNextPageParam reads lastPage.nextCursor, useInView.   *)
(* Both call the gateway src/src/api/todoApi.ts.                           *)
(*                                                                         *)
(* The calls into the query library (useInfiniteQuery, fetchNextPage,      *)
(* invalidateQueries, useMutation) are modelled at their call sites with   *)
(* the behaviour of TanStack Query v5 (the version that has                *)
(* initialPageParam): one fetch per query at a time, a new fetch of a      *)
(* query that has data cancels the fetch in flight (cancelRefetch          *)
(* defaults to true) while the HTTP request of the cancelled fetch stays   *)
(* on the wire because getTodos never reads the abort signal; a refetch    *)
(* re-requests every loaded page in order and replaces the data when the   *)
(* last one arrived; an error keeps the data and sets status "error".      *)
(*                                                                         *)
(* Specifications: Spec (the App with mutations), SpecPaging (paging       *)
(* alone over more totals), SpecNoHeader (a service that sends no          *)
(* x-total-count header), SpecGateway (one gateway call taken alone).      *)
(***************************************************************************)
EXTENDS Integers, Sequences, FiniteSets, Bags

VARIABLES
    variant,      \* which App component is mounted
    service,      \* how the Remote Todo Service answers where its contract is
                  \* silent: [totalCount, pageZero]
    server,       \* Remote Todo Service: the stored todos, in order
    status,       \* query status: "pending" | "success" | "error"
    pages,        \* data.pages of the infinite query (<<>>: data undefined)
    pageParams,   \* data.pageParams
    fetchStatus,  \* "idle" | "fetching"
    fetchDir,     \* fetchMeta.fetchMore.direction: "forward" | "none"
    error,        \* error message of the query, or NoError
    failureCount, \* fetchFailureCount of the running fetch
    live,         \* <<request>> of the running fetch, or <<>>
    acc,          \* pages gathered so far by the running fetch
    stale,        \* bag of the requests of cancelled fetches still on the wire
    inView,       \* the sentinel intersects the viewport
    observing,    \* "observer" variant: an IntersectionObserver watches the sentinel
    muts,         \* bag of the mutation requests on the wire
    newTodo,      \* the add-todo input (a sequence of characters)
    nMut,         \* mutations issued so far
    last,         \* history: the response the last step delivered to the query or
                  \* to a mutation ("listOk", "listFail", "mutationOk",
                  \* "mutationFail"), "submit" for a submit of the form,
                  \* "other" for any other step
    call          \* a call of a gateway operation taken alone: its input, the
                  \* response to its request and what it returned

vars == << variant, service, server, status, pages, pageParams, fetchStatus, fetchDir,
           error, failureCount, live, acc, stale, inView, observing, muts,
           newTodo, nMut, last, call >>

----------------------------------------------------------------------------
(* Bounds of the model *)

\* largest number of todos the server holds initially
MaxTotal == 12
\* largest initial number of todos when paging alone is explored
MaxPagingTotal == 25
\* mutations (create, toggle, delete) issued in one behaviour
MaxMutations == 2
\* requests of cancelled fetches that may be on the wire at once
MaxStale == 1
\* largest page parameter a gateway call taken alone is given
MaxPageParam == 3
\* largest total count a list response to such a call reports
MaxCount == 31

----------------------------------------------------------------------------
(* Values *)

\* JavaScript undefined / null, for a page parameter or cursor
Undefined == -1

NoError == "none"

\* getTodos: const limit = 10
limit == 10

Min(a, b) == IF a < b THEN a ELSE b
Max(a, b) == IF a > b THEN a ELSE b

RECURSIVE FlatMap(_)
FlatMap(ps) == IF ps = <<>> THEN <<>> ELSE Head(ps).todos \o FlatMap(Tail(ps))

Last(s) == s[Len(s)]

----------------------------------------------------------------------------
(* Remote Todo Service (external collaborator; section 6 of the contract)  *)

\* a stored todo; the initial ones are uncompleted on odd ids
InitTodo(i) == [id |-> i, title |-> <<"t">>, completed |-> (i % 2 = 0)]

InitServer(n) == [i \in 1..n |-> InitTodo(i)]

\* decimal digits of a natural number, as the service writes x-total-count
RECURSIVE ToDigits(_)
ToDigits(n) == IF n < 10 THEN <<n>> ELSE Append(ToDigits(n \div 10), n % 10)

\* what a service does with a page index below 1, which is outside the
\* contract (pages are 1-based): it clamps the index to page 1 ("first") or
\* answers an empty page ("empty"); a service keeps to one of the two
PageZero == {"first", "empty"}

\* the x-total-count header of a response: absent, or a string
NoHeader == [present |-> FALSE, value |-> <<>>]
Header(s) == [present |-> TRUE, value |-> s]

\* a response as fetch() hands it over: Response.ok is true for a status in
\* the range 200-299
Response(st, b, h) ==
    [status |-> st, ok |-> (st >= 200 /\ st <= 299), body |-> b, totalCount |-> h]

\* GET /todos?_page=n&_limit=10: the body the service answers with
ServerPage(srv, n) ==
    IF n >= 1
    THEN {SubSeq(srv, (n - 1) * limit + 1, Min(n * limit, Len(srv)))}
    ELSE IF service.pageZero = "first"
         THEN {SubSeq(srv, 1, Min(limit, Len(srv)))}
         ELSE {<<>>}

\* a successful list response: the body and, from a service that sends it,
\* the x-total-count header
ListResponses(srv, n) ==
    {Response(200, b, IF service.totalCount THEN Header(ToDigits(Len(srv)))
                      ELSE NoHeader) :
        b \in ServerPage(srv, n)}

\* a response with a failure status (4xx or 5xx)
FailResponse == Response(500, <<>>, NoHeader)

HasId(srv, i) == \E k \in 1..Len(srv) : srv[k].id = i

RECURSIVE MaxId(_)
MaxId(srv) == IF srv = <<>> THEN 0 ELSE Max(Head(srv).id, MaxId(Tail(srv)))

\* POST /todos {title, userId}: the service assigns the id, completed is false
ServerCreate(srv, title) ==
    Append(srv, [id |-> MaxId(srv) + 1, title |-> title, completed |-> FALSE])

\* PATCH /todos/{id} {completed}
ServerPatch(srv, i, c) ==
    [k \in 1..Len(srv) |->
        IF srv[k].id = i THEN [srv[k] EXCEPT !.completed = c] ELSE srv[k]]

\* DELETE /todos/{id}
ServerDelete(srv, i) == SelectSeq(srv, LAMBDA t : t.id # i)

----------------------------------------------------------------------------
(* Todo Client Gateway: src/src/api/todoApi.ts *)

\* parseInt of a string of decimal digits
RECURSIVE parseInt(_)
parseInt(s) ==
    IF s = <<>> THEN 0 ELSE parseInt(SubSeq(s, 1, Len(s) - 1)) * 10 + Last(s)

\* JavaScript truthiness of response.headers.get('x-total-count'):
\* null (header absent) and the empty string are falsy
Truthy(h) == h.present /\ h.value # <<>>

\* the comparison with <= in place of <
hasNextPageInclusive(pageParam, h) ==
    IF ~Truthy(h) THEN "null"
    ELSE IF pageParam * limit <= parseInt(h.value) THEN "true" ELSE "false"

\* the value of `totalCount && pageParam * limit < parseInt(totalCount)`
hasNextPageOf(pageParam, h) ==
    IF ~Truthy(h) THEN "null"
    ELSE IF pageParam * limit < parseInt(h.value) THEN "true" ELSE "false"

\* the message of the Error getTodos throws
FetchTodosError == "Failed to fetch todos"

\* a getTodos without the response.ok check: it reads whatever came back
getTodosUnchecked(pageParam, response) ==
    LET p == IF pageParam = Undefined THEN 1 ELSE pageParam
        h == hasNextPageOf(p, response.totalCount)
    IN  [threw |-> FALSE,
         page |-> [todos |-> response.body,
                   hasNextPage |-> h,
                   nextCursor |-> IF h = "true" THEN p + 1 ELSE Undefined]]

\* getTodos({pageParam = 1}) on the response to its request: it throws on
\* !response.ok, else it resolves with the page
getTodos(pageParam, response) ==
    LET p == IF pageParam = Undefined THEN 1 ELSE pageParam
        h == hasNextPageOf(p, response.totalCount)
    IN  IF ~response.ok
        THEN [threw |-> TRUE, message |-> FetchTodosError]
        ELSE [threw |-> FALSE,
              page |-> [todos |-> response.body,
                        hasNextPage |-> h,
                        nextCursor |-> IF h = "true" THEN p + 1 ELSE Undefined]]

\* createTodo on the response to its POST: it throws on !response.ok, else
\* it resolves with response.json()
createTodoReturn(response) ==
    IF ~response.ok
    THEN [threw |-> TRUE, message |-> "Failed to create todo"]
    ELSE [threw |-> FALSE, value |-> response.body]

\* toggleTodo on the response to its PATCH
toggleTodoReturn(response) ==
    IF ~response.ok
    THEN [threw |-> TRUE, message |-> "Failed to update todo"]
    ELSE [threw |-> FALSE, value |-> response.body]

\* a deleteTodo without the response.ok check
deleteTodoUnchecked(response) == [threw |-> FALSE, value |-> Undefined]

\* deleteTodo on the response to its DELETE: it throws on !response.ok, else
\* it resolves with nothing
deleteTodoReturn(response) ==
    IF ~response.ok
    THEN [threw |-> TRUE, message |-> "Failed to delete todo"]
    ELSE [threw |-> FALSE, value |-> Undefined]

----------------------------------------------------------------------------
(* Paginated Todo Cache: the useInfiniteQuery call of each App variant *)

Variants == {"observer", "inView"}

\* useInfiniteQuery({..., initialPageParam})
initialPageParam(v) == IF v = "observer" THEN 1 ELSE 0

\* a getNextPageParam that counts on from the last page parameter and never
\* reads the cursor of the page
getNextPageParamCounting(v, lastPage, lastPageParam) == lastPageParam + 1

\* useInfiniteQuery({..., getNextPageParam}), called with the last page and
\* its page parameter: "observer" reads lastPage.nextPage, a field getTodos
\* never sets; "inView" reads lastPage.nextCursor
getNextPageParam(v, lastPage, lastPageParam) ==
    IF v = "observer"
    THEN IF "nextPage" \in DOMAIN lastPage THEN lastPage.nextPage ELSE Undefined
    ELSE lastPage.nextCursor

\* the retry default of the QueryClient, which is created outside the files
\* at hand: nothing is retried automatically
defaultRetry == 0

\* useInfiniteQuery options that ask for one retry
queryRetryOnce == defaultRetry + 1

\* the useInfiniteQuery options set no retry of their own
queryRetry == defaultRetry

\* the page parameter after the pages of d (undefined when there is no page)
NextPageParam(v, d) ==
    IF d.pages = <<>> THEN Undefined
    ELSE getNextPageParam(v, Last(d.pages), Last(d.pageParams))

\* the client side of the model as one record
Client ==
    [status |-> status, pages |-> pages, pageParams |-> pageParams,
     fetchStatus |-> fetchStatus, fetchDir |-> fetchDir, error |-> error,
     failureCount |-> failureCount, live |-> live, acc |-> acc,
     stale |-> stale, inView |-> inView, observing |-> observing]

SetClient(c) ==
    /\ status' = c.status
    /\ pages' = c.pages
    /\ pageParams' = c.pageParams
    /\ fetchStatus' = c.fetchStatus
    /\ fetchDir' = c.fetchDir
    /\ error' = c.error
    /\ failureCount' = c.failureCount
    /\ live' = c.live
    /\ acc' = c.acc
    /\ stale' = c.stale
    /\ inView' = c.inView
    /\ observing' = c.observing

NoData == [pages |-> <<>>, pageParams |-> <<>>]

\* hasNextPage, isFetchingNextPage as useInfiniteQuery returns them
hasNextPageC(v, c) == NextPageParam(v, c) # Undefined
isFetchingNextPageC(c) == c.fetchStatus = "fetching" /\ c.fetchDir = "forward"

\* a page request of a fetch: the index-th page of `total`, with its parameter
Request(param, index, total, dir) ==
    [param |-> param, index |-> index, total |-> total, dir |-> dir]

\* the first request of a fetch in direction dir over the data c holds
FirstRequest(v, c, dir) ==
    IF dir = "forward" /\ c.pages # <<>>
    THEN Request(NextPageParam(v, c), Len(c.pages) + 1, Len(c.pages) + 1, "forward")
    ELSE Request(IF c.pageParams # <<>> THEN c.pageParams[1] ELSE initialPageParam(v),
                 1, Max(Len(c.pages), 1), "none")

\* the fetch of the query settled with data d
Settled(c, d) ==
    [c EXCEPT !.status = "success", !.pages = d.pages, !.pageParams = d.pageParams,
              !.error = NoError, !.fetchStatus = "idle", !.fetchDir = "none",
              !.failureCount = 0, !.live = <<>>, !.acc = NoData]

\* Query.fetch with the infinite-query behaviour. While the first load is in
\* flight (no data yet) the running fetch is kept; a fetch of a query that has
\* data cancels the running one, whose request stays on the wire. fetchNextPage
\* requests the page after the last one, or resolves at once when there is none;
\* any other fetch re-requests the loaded pages from the first page parameter.
Fetch(v, c, dir) ==
    IF c.fetchStatus = "fetching" /\ c.pages = <<>> THEN c
    ELSE
      LET c1 == [c EXCEPT !.stale = c.stale (+) SetToBag({c.live[k] : k \in 1..Len(c.live)}),
                          !.live = <<>>]
          r == FirstRequest(v, c, dir)
      IN  IF r.param = Undefined /\ r.dir = "forward"
          THEN Settled(c1, [pages |-> c.pages, pageParams |-> c.pageParams])
          ELSE [c1 EXCEPT
                  !.status = IF c.pages = <<>> THEN "pending" ELSE c.status,
                  !.error = IF c.pages = <<>> THEN NoError ELSE c.error,
                  !.fetchStatus = "fetching",
                  !.fetchDir = r.dir,
                  !.failureCount = 0,
                  !.live = <<r>>,
                  !.acc = IF r.dir = "forward"
                          THEN [pages |-> c.pages, pageParams |-> c.pageParams]
                          ELSE NoData]

\* fetchNextPage() of the observer
fetchNextPage(v, c) == Fetch(v, c, "forward")

\* queryClient.resetQueries in place of invalidateQueries: the data is dropped,
\* the running fetch cancelled and the first page loaded anew
resetQueries(v, c) ==
    Fetch(v, [c EXCEPT !.status = "pending", !.pages = <<>>, !.pageParams = <<>>,
                       !.error = NoError, !.fetchStatus = "idle",
                       !.stale = c.stale (+) SetToBag({c.live[k] : k \in 1..Len(c.live)}),
                       !.live = <<>>], "none")

\* queryClient.invalidateQueries({queryKey: ['todos']}): the mounted query is
\* marked stale and refetched
invalidateQueries(v, c) == Fetch(v, c, "none")

\* the query function of the running fetch resolved: the page is added to its
\* result; a refetch goes on with the next page while pages remain and the
\* new page has a next parameter, otherwise the result becomes the data
PageArrived(v, c, page) ==
    LET r == c.live[1]
        d == [pages |-> Append(c.acc.pages, page),
              pageParams |-> Append(c.acc.pageParams, r.param)]
        next == getNextPageParam(v, page, r.param)
    IN  IF r.dir = "none" /\ r.index < r.total /\ next # Undefined
        THEN [c EXCEPT !.live = <<Request(next, r.index + 1, r.total, "none")>>,
                       !.acc = d]
        ELSE Settled(c, d)

\* the query function of the running fetch threw: the fetch is run again
\* while retries remain, else the query is in error with the data kept
PageFailed(v, c, message) ==
    IF c.failureCount < queryRetry
    THEN [c EXCEPT !.failureCount = c.failureCount + 1,
                   !.live = <<FirstRequest(v, c, c.live[1].dir)>>,
                   !.acc = IF c.live[1].dir = "forward"
                           THEN [pages |-> c.pages, pageParams |-> c.pageParams]
                           ELSE NoData]
    ELSE [c EXCEPT !.status = "error", !.error = message,
                   !.fetchStatus = "idle", !.fetchDir = "none",
                   !.failureCount = 0, !.live = <<>>, !.acc = NoData]

\* a request of a cancelled fetch was answered: its result is dropped, but
\* the loop of a cancelled refetch goes on requesting its remaining pages
StaleArrived(v, c, r, response) ==
    LET res == getTodos(r.param, response)
        rest == c.stale (-) SetToBag({r})
    IN  IF /\ ~res.threw /\ r.dir = "none" /\ r.index < r.total
           /\ getNextPageParam(v, res.page, r.param) # Undefined
        THEN [c EXCEPT !.stale =
                  rest (+) SetToBag({Request(getNextPageParam(v, res.page, r.param),
                                             r.index + 1, r.total, "none")})]
        ELSE [c EXCEPT !.stale = rest]

----------------------------------------------------------------------------
(* Todo List View and Viewport Trigger: the App component *)

\* what App renders: the early returns on the loading and the error state
\* come before the list, the form and the sentinel
View(c) ==
    IF c.status = "pending" THEN "loading"
    ELSE IF c.status = "error" THEN "error"
    ELSE "list"

\* const todos = data?.pages.flatMap(page => page.todos) ?? []
todosOf(c) == FlatMap(c.pages)

\* the items on screen
Visible(c) == IF View(c) = "list" THEN todosOf(c) ELSE <<>>

\* the sentinel element is in the document
SentinelMounted(c) == View(c) = "list"

\* the effect without its dependency list: it runs after every render
inViewEffectEveryRender(v, pre, c) ==
    IF c.inView /\ hasNextPageC(v, c) THEN fetchNextPage(v, c) ELSE c

\* "inView": useEffect(() => { if (inView && hasNextPage) fetchNextPage() },
\* [inView, hasNextPage, fetchNextPage]) runs when one of its dependencies
\* changed from the previous render (pre)
inViewEffect(v, pre, c) ==
    IF /\ (c.inView # pre.inView \/ hasNextPageC(v, c) # hasNextPageC(v, pre))
       /\ c.inView /\ hasNextPageC(v, c)
    THEN fetchNextPage(v, c)
    ELSE c

\* "observer": handleObserver with an intersecting entry
handleObserver(v, c) ==
    IF hasNextPageC(v, c) /\ ~isFetchingNextPageC(c)
    THEN fetchNextPage(v, c)
    ELSE c

\* "observer": handleObserver is re-made when hasNextPage or
\* isFetchingNextPage changed, and the effect then replaces the observer
\* (none when the sentinel is not in the document); a new observer reports
\* the sentinel's intersection at once, an old one when the sentinel enters
observerEffect(v, pre, c) ==
    LET remade == \/ hasNextPageC(v, c) # hasNextPageC(v, pre)
                  \/ isFetchingNextPageC(c) # isFetchingNextPageC(pre)
        c1 == IF remade THEN [c EXCEPT !.observing = SentinelMounted(c)] ELSE c
        called == c1.observing /\ c1.inView /\ (remade \/ ~pre.inView)
        c2 == IF called THEN handleObserver(v, c1) ELSE c1
    IN  IF isFetchingNextPageC(c2) # isFetchingNextPageC(c1)
        THEN [c2 EXCEPT !.observing = SentinelMounted(c2)]
        ELSE c2

\* the render after a state change (pre: the render before it) and its effects
Render(v, pre, c) ==
    LET c1 == IF SentinelMounted(c) THEN c
              ELSE [c EXCEPT !.inView = FALSE, !.observing = FALSE]
    IN  IF v = "inView" THEN inViewEffect(v, pre, c1) ELSE observerEffect(v, pre, c1)

\* the response to the running fetch's request reaches the query function
Received(v, c, response) ==
    LET res == getTodos(c.live[1].param, response)
    IN  IF res.threw THEN PageFailed(v, c, res.message) ELSE PageArrived(v, c, res.page)

\* String.prototype.trim on a sequence of characters
RECURSIVE TrimLeft(_)
TrimLeft(s) == IF s # <<>> /\ Head(s) = " " THEN TrimLeft(Tail(s)) ELSE s

RECURSIVE TrimRight(_)
TrimRight(s) ==
    IF s # <<>> /\ Last(s) = " " THEN TrimRight(SubSeq(s, 1, Len(s) - 1)) ELSE s

trim(s) == TrimRight(TrimLeft(s))

\* what the user may type into the add-todo input
Titles == {<<>>, <<" ">>, <<"a">>}

\* the todos whose checkbox or delete button the user may press: the first
\* on screen
Targets(c) ==
    LET ts == Visible(c) IN IF ts = <<>> THEN {} ELSE {ts[1]}

\* mutation requests as the gateway sends them
\* a createTodo that posts an empty title
createTodoUntitled(title) ==
    [op |-> "create", id |-> 0, title |-> <<>>, completed |-> FALSE]
\* createTodo({title, userId: 1}): POST /todos
createTodo(title) == [op |-> "create", id |-> 0, title |-> title, completed |-> FALSE]
\* a toggleTodo that sends the todo's completed value as it is
toggleTodoSame(todo) ==
    [op |-> "toggle", id |-> todo.id, title |-> <<>>, completed |-> todo.completed]
\* toggleTodo(todo): PATCH /todos/{todo.id} {completed: !todo.completed}
toggleTodo(todo) ==
    [op |-> "toggle", id |-> todo.id, title |-> <<>>, completed |-> ~todo.completed]
\* deleteTodo(id): DELETE /todos/{id}
deleteTodo(i) == [op |-> "delete", id |-> i, title |-> <<>>, completed |-> FALSE]

\* the service applies a mutation request
ServerApply(srv, m) ==
    IF m.op = "create" THEN ServerCreate(srv, m.title)
    ELSE IF m.op = "toggle" THEN ServerPatch(srv, m.id, m.completed)
    ELSE ServerDelete(srv, m.id)

----------------------------------------------------------------------------
(* The state machine *)

\* a step to client state c; cancelled requests on the wire are bounded
Step(c) == SetClient(c) /\ BagCardinality(c.stale) <= MaxStale

Unmounted ==
    [status |-> "pending", pages |-> <<>>, pageParams |-> <<>>,
     fetchStatus |-> "idle", fetchDir |-> "none", error |-> NoError,
     failureCount |-> 0, live |-> <<>>, acc |-> NoData, stale |-> EmptyBag,
     inView |-> FALSE, observing |-> FALSE]

\* no gateway call is looked at alone
NoCall ==
    [op |-> "none", pageParam |-> Undefined, total |-> Undefined,
     todo |-> InitTodo(1), response |-> FailResponse, done |-> FALSE,
     result |-> [threw |-> FALSE]]

\* App is mounted: the query starts its first fetch. Only "inView" ever asks
\* for a page index below 1, so both kinds of service are tried for it alone.
InitWith(totals, headers) ==
    /\ variant \in Variants
    /\ service \in [totalCount : headers,
                    pageZero : IF variant = "inView" THEN PageZero ELSE {"first"}]
    /\ call = NoCall
    /\ \E n \in totals : server = InitServer(n)
    /\ LET c == Fetch(variant, Unmounted, "none")
       IN  /\ status = c.status /\ pages = c.pages /\ pageParams = c.pageParams
           /\ fetchStatus = c.fetchStatus /\ fetchDir = c.fetchDir
           /\ error = c.error /\ failureCount = c.failureCount
           /\ live = c.live /\ acc = c.acc /\ stale = c.stale
           /\ inView = c.inView /\ observing = c.observing
    /\ muts = EmptyBag
    /\ newTodo = <<>>
    /\ nMut = 0
    /\ last = "other"

\* the numbers of todos the service may hold when App is mounted
Totals == {0, MaxTotal \div 2, MaxTotal}

Init == InitWith(Totals, {TRUE})

\* the service answers the running fetch's request with a page
ListOk ==
    /\ last' = "listOk"
    /\ live # <<>>
    /\ \E response \in ListResponses(server, live[1].param) :
          Step(Render(variant, Client, Received(variant, Client, response)))
    /\ UNCHANGED << variant, service, call, server, muts, newTodo, nMut >>

\* the service answers the running fetch's request with a failure status
ListFail ==
    /\ last' = "listFail"
    /\ live # <<>>
    /\ Step(Render(variant, Client, Received(variant, Client, FailResponse)))
    /\ UNCHANGED << variant, service, call, server, muts, newTodo, nMut >>

\* the service answers a request of a cancelled fetch
StaleOk ==
    /\ last' = "other"
    /\ \E r \in BagToSet(stale) :
        \E response \in ListResponses(server, r.param) :
            Step(StaleArrived(variant, Client, r, response))
    /\ UNCHANGED << variant, service, call, server, muts, newTodo, nMut >>

StaleFail ==
    /\ last' = "other"
    /\ \E r \in BagToSet(stale) :
            Step(StaleArrived(variant, Client, r, FailResponse))
    /\ UNCHANGED << variant, service, call, server, muts, newTodo, nMut >>

\* the sentinel scrolls into the viewport
SentinelEnter ==
    /\ last' = "other"
    /\ SentinelMounted(Client)
    /\ ~inView
    /\ Step(Render(variant, Client, [Client EXCEPT !.inView = TRUE]))
    /\ UNCHANGED << variant, service, call, server, muts, newTodo, nMut >>

\* the sentinel leaves the viewport
SentinelLeave ==
    /\ last' = "other"
    /\ inView
    /\ Step(Render(variant, Client, [Client EXCEPT !.inView = FALSE]))
    /\ UNCHANGED << variant, service, call, server, muts, newTodo, nMut >>

\* App renders again after a change of its own state or of a mutation's
\* state: the query is as it was, and so are the dependencies of the effects
Rerender == Step(Render(variant, Client, Client))

\* onChange of the input: setNewTodo(e.target.value)
SetNewTodo ==
    /\ last' = "other"
    /\ View(Client) = "list"
    /\ nMut < MaxMutations
    /\ \E s \in Titles : s # newTodo /\ newTodo' = s
    /\ Rerender
    /\ UNCHANGED << variant, service, call, server, muts, nMut >>

\* a handleSubmit that tests the input without trimming it
handleSubmitNoTrim(ms, input) ==
    IF input = <<>> THEN ms ELSE ms (+) SetToBag({createTodo(input)})

\* the mutation requests after handleSubmit: none for a blank input
handleSubmit(ms, input) ==
    IF trim(input) = <<>> THEN ms ELSE ms (+) SetToBag({createTodo(input)})

\* the form is submitted
Submit ==
    /\ last' = "submit"
    /\ View(Client) = "list"
    /\ nMut < MaxMutations
    /\ muts' = handleSubmit(muts, newTodo)
    /\ nMut' = nMut + (BagCardinality(muts') - BagCardinality(muts))
    /\ Rerender
    /\ UNCHANGED << variant, service, call, server, newTodo >>

\* the pages with completed negated on the todos with id i
FlipIn(ps, i) ==
    [k \in 1..Len(ps) |->
        [ps[k] EXCEPT !.todos =
            [j \in 1..Len(ps[k].todos) |->
                IF ps[k].todos[j].id = i
                THEN [ps[k].todos[j] EXCEPT !.completed = ~ps[k].todos[j].completed]
                ELSE ps[k].todos[j]]]]

\* a toggle with an optimistic update: the cached todo is flipped at once
ToggleOptimistic ==
    /\ last' = "other"
    /\ nMut < MaxMutations
    /\ \E todo \in Targets(Client) :
          /\ muts' = muts (+) SetToBag({toggleTodo(todo)})
          /\ Step(Render(variant, Client,
                         [Client EXCEPT !.pages = FlipIn(pages, todo.id)]))
    /\ nMut' = nMut + 1
    /\ UNCHANGED << variant, service, call, server, newTodo >>

\* a checkbox is changed: toggleTodoMutation.mutate(todo)
Toggle ==
    /\ last' = "other"
    /\ nMut < MaxMutations
    /\ \E todo \in Targets(Client) : muts' = muts (+) SetToBag({toggleTodo(todo)})
    /\ nMut' = nMut + 1
    /\ Rerender
    /\ UNCHANGED << variant, service, call, server, newTodo >>

\* a delete button is pressed: deleteTodoMutation.mutate(todo.id)
Delete ==
    /\ last' = "other"
    /\ nMut < MaxMutations
    /\ \E todo \in Targets(Client) : muts' = muts (+) SetToBag({deleteTodo(todo.id)})
    /\ nMut' = nMut + 1
    /\ Rerender
    /\ UNCHANGED << variant, service, call, server, newTodo >>

\* an onSuccess that leaves the query alone
onSuccessNothing(v, c) == c

\* onSuccess of the three mutations: invalidateQueries; create also clears
\* the input
onSuccess(v, c) == Render(v, c, invalidateQueries(v, c))

\* the service carries out a mutation and answers ok
MutationOk ==
    /\ last' = "mutationOk"
    /\ \E m \in BagToSet(muts) :
        /\ m.op = "create" \/ HasId(server, m.id)
        /\ server' = ServerApply(server, m)
        /\ muts' = muts (-) SetToBag({m})
        /\ newTodo' = IF m.op = "create" THEN <<>> ELSE newTodo
    /\ Step(onSuccess(variant, Client))
    /\ UNCHANGED << variant, service, call, nMut >>

\* the service answers a mutation with a failure status: the gateway throws
\* and no callback is registered for the error
MutationFail ==
    /\ last' = "mutationFail"
    /\ \E m \in BagToSet(muts) : muts' = muts (-) SetToBag({m})
    /\ Rerender
    /\ UNCHANGED << variant, service, call, server, newTodo, nMut >>

Next ==
    \/ ListOk
    \/ ListFail
    \/ StaleOk
    \/ StaleFail
    \/ SentinelEnter
    \/ SentinelLeave
    \/ SetNewTodo
    \/ Submit
    \/ Toggle
    \/ Delete
    \/ MutationOk
    \/ MutationFail

Spec == Init /\ [][Next]_vars

\* paging alone: every initial total up to MaxPagingTotal, no mutation
InitPaging == InitWith(0..MaxPagingTotal, {TRUE})

NextPaging ==
    \/ ListOk
    \/ ListFail
    \/ StaleOk
    \/ StaleFail
    \/ SentinelEnter
    \/ SentinelLeave

SpecPaging == InitPaging /\ [][NextPaging]_vars

\* the same App against a service that sends no x-total-count header
InitNoHeader == InitWith(Totals, {FALSE})

SpecNoHeader == InitNoHeader /\ [][Next]_vars

----------------------------------------------------------------------------
(* The gateway operations taken alone: one call, its response, its result *)

appVars == << variant, service, server, status, pages, pageParams, fetchStatus,
              fetchDir, error, failureCount, live, acc, stale, inView,
              observing, muts, newTodo, nMut, last >>

\* the statuses a response may carry
Statuses == {200, 201, 204, 400, 404, 500, 503}

\* the page parameters getTodos may be called with (undefined: the default)
PageParams == {Undefined} \cup (0..MaxPageParam)

\* the total counts a list response may report (undefined: no header)
Counts == {Undefined} \cup (0..MaxCount)

HeaderOf(n) == IF n = Undefined THEN NoHeader ELSE Header(ToDigits(n))

\* a call of operation op before its response is handled
Call(op, p, n, todo, response) ==
    [op |-> op, pageParam |-> p, total |-> n, todo |-> todo,
     response |-> response, done |-> FALSE, result |-> [threw |-> FALSE]]

\* getTodos({pageParam}) and a list response
GetTodosCalls ==
    {Call("getTodos", p, n, InitTodo(1), Response(st, b, HeaderOf(n))) :
        p \in PageParams, n \in Counts, st \in Statuses,
        b \in {<<>>, InitServer(2)}}

\* createTodo({title, userId}) and a response with the created todo
CreateTodoCalls ==
    {Call("createTodo", Undefined, Undefined, t, Response(st, t, NoHeader)) :
        t \in {[id |-> 3, title |-> <<"a">>, completed |-> FALSE]},
        st \in Statuses}

\* toggleTodo(todo) and a response with the updated todo
ToggleTodoCalls ==
    {Call("toggleTodo", Undefined, Undefined, t,
          Response(st, [t EXCEPT !.completed = ~t.completed], NoHeader)) :
        t \in {InitTodo(1), InitTodo(2)}, st \in Statuses}

\* deleteTodo(todo.id) and a response with an empty body
DeleteTodoCalls ==
    {Call("deleteTodo", Undefined, Undefined, t, Response(st, <<>>, NoHeader)) :
        t \in {InitTodo(1), InitTodo(2)}, st \in Statuses}

InitGateway ==
    /\ \/ call \in GetTodosCalls
       \/ call \in CreateTodoCalls
       \/ call \in ToggleTodoCalls
       \/ call \in DeleteTodoCalls
    /\ variant = "observer"
    /\ service = [totalCount |-> TRUE, pageZero |-> "first"]
    /\ server = <<>>
    /\ status = Unmounted.status /\ pages = <<>> /\ pageParams = <<>>
    /\ fetchStatus = "idle" /\ fetchDir = "none" /\ error = NoError
    /\ failureCount = 0 /\ live = <<>> /\ acc = NoData /\ stale = EmptyBag
    /\ inView = FALSE /\ observing = FALSE
    /\ muts = EmptyBag /\ newTodo = <<>> /\ nMut = 0 /\ last = "other"

\* the operation handles the response and returns or throws
Returns(op, result) ==
    /\ call.op = op
    /\ ~call.done
    /\ call' = [call EXCEPT !.done = TRUE, !.result = result]
    /\ UNCHANGED appVars

GetTodosReturns == Returns("getTodos", getTodos(call.pageParam, call.response))
CreateTodoReturns == Returns("createTodo", createTodoReturn(call.response))
ToggleTodoReturns == Returns("toggleTodo", toggleTodoReturn(call.response))
DeleteTodoReturns == Returns("deleteTodo", deleteTodoReturn(call.response))

NextGateway ==
    \/ GetTodosReturns
    \/ CreateTodoReturns
    \/ ToggleTodoReturns
    \/ DeleteTodoReturns

SpecGateway == InitGateway /\ [][NextGateway]_vars

----------------------------------------------------------------------------
(* What the component reads from the query, and the requests on the wire *)

data == [pages |-> pages, pageParams |-> pageParams]
hasNextPage == hasNextPageC(variant, Client)
isFetchingNextPage == isFetchingNextPageC(Client)
isFetching == fetchStatus = "fetching"
todos == todosOf(Client)

\* the bag of the page requests on the wire
Wire(c) == c.stale (+) SetToBag({c.live[k] : k \in 1..Len(c.live)})
InFlight == Wire(Client)

\* a step puts a new page request of direction dir on the wire
Issues(dir) ==
    \E r \in BagToSet(InFlight') :
        r.dir = dir /\ CopiesIn(r, InFlight') > CopiesIn(r, InFlight)

NoDuplicateIds(ts) ==
    \A i, j \in 1..Len(ts) : ts[i].id = ts[j].id => i = j

----------------------------------------------------------------------------
(* Claims *)

\* C1: with a server holding T todos and page size 10, after the k-th
\* successful page fetch (no mutation in between) hasNextPage is true exactly
\* when k*10 < T and the flattened list holds min(k*10, T) items; for T = 25:
\* true, true, false and 10, 20, 25 items.
C1_PageCounts ==
    (status = "success" /\ nMut = 0) =>
        /\ hasNextPage <=> (Len(pages) * limit < Len(server))
        /\ Len(todos) = Min(Len(pages) * limit, Len(server))

\* C2: in every reachable state at most one page request is in flight: a
\* fetchNextPage signal that arrives while a page fetch is pending issues no
\* request.
C2_OneRequestInFlight == BagCardinality(InFlight) <= 1

\* C3: whenever the last loaded page has no cursor (hasNextPage is false), no
\* step, however often the sentinel becomes visible, issues a next-page
\* request.
C3_NoRequestWithoutCursor ==
    [][Issues("forward") =>
          /\ pages' # <<>>
          /\ Last(pages').nextCursor # Undefined
          /\ hasNextPageC(variant', Client')]_vars

\* C3 witness: the list is fully loaded over several pages, the sentinel is in
\* view and nothing is being fetched.
C3_Witness ==
    /\ status = "success" /\ Len(pages) >= 2 /\ ~hasNextPage
    /\ inView /\ InFlight = EmptyBag

\* C4: page requests form a cursor chain in page-number order: the first
\* request of a fetch uses the page parameter of page 1 of the gateway, every
\* later request uses the nextCursor returned with the page before it.
C4_CursorChain ==
    \A k \in 1..Len(live) :
        /\ live[k].index = 1 => live[k].param = 1
        /\ live[k].index > 1 => live[k].param = Last(acc.pages).nextCursor

\* C5: after any sequence of successful page fetches the flattened list is the
\* concatenation of the fetched pages in fetch order, no todo id twice.
C5_NoDuplicates ==
    nMut = 0 => /\ todos = FlatMap(pages)
                /\ NoDuplicateIds(todos)

\* a refetch of loaded pages is running
RefetchRuns == live # <<>> /\ live[1].dir = "none" /\ pages # <<>>

\* this step delivers the last page of the running refetch
RefetchSettles ==
    /\ RefetchRuns
    /\ last' = "listOk"
    /\ ~(live' # <<>> /\ live'[1].dir = "none")

\* this step starts a fetch from the first page (a first load or a refetch)
StartsFromFirstPage ==
    \E r \in BagToSet(InFlight') :
        /\ r.index = 1 /\ r.dir = "none"
        /\ CopiesIn(r, InFlight') > CopiesIn(r, InFlight)

C7_ItemsStayVisible ==
    [][(last' = "listFail" /\ pages # <<>>) =>
          /\ pages' = pages
          /\ Visible(Client') = FlatMap(pages)
          /\ error' # NoError]_vars

\* C8: a failed first-page fetch puts the view in the error state with the
\* message 'Failed to fetch todos', the item list empty and no page added.
C8_FirstPageFailure ==
    [][(last' = "listFail" /\ pages = <<>>) =>
          /\ status' = "error"
          /\ View(Client') = "error"
          /\ error' = "Failed to fetch todos"
          /\ pages' = <<>>
          /\ todosOf(Client') = <<>>
          /\ Visible(Client') = <<>>]_vars

\* C8 witness: the first load failed.
C8_Witness == last = "listFail" /\ pages = <<>> /\ status = "error"

C10_InvalidateOnSuccessOnly ==
    [][/\ (last' = "mutationOk") =>
            /\ live' = <<Request(pageParams[1], 1, Len(pages), "none")>>
            /\ BagCardinality(InFlight') = BagCardinality(InFlight) + 1
       /\ StartsFromFirstPage => last' = "mutationOk"
       /\ (last' = "mutationFail") =>
            /\ Client' = Client
            /\ server' = server
            /\ Visible(Client') = Visible(Client)]_vars

\* C10 witness: a mutation succeeded with two pages loaded and the refetch it
\* triggered is on the wire.
C10_Witness ==
    /\ last = "mutationOk" /\ Len(pages) >= 2
    /\ live # <<>> /\ live[1].index = 1 /\ live[1].dir = "none"

\* the successful mutations the service shows: the todos it stores that were
\* created by the client or whose completed differs from the initial value
\* (the initial todos have the title "t", the created ones the title typed)
ServerChanges(srv) ==
    Cardinality({k \in 1..Len(srv) :
                    \/ srv[k].title # InitTodo(srv[k].id).title
                    \/ srv[k].completed # InitTodo(srv[k].id).completed})

\* page k of data d is what the service in state srv answers to the request
\* that fetched it
FreshPage(srv, d, k) ==
    \E response \in ListResponses(srv, d.pageParams[k]) :
        d.pages[k] = getTodos(d.pageParams[k], response).page

\* C11: when two mutations triggered in quick succession have both succeeded
\* and every request has been answered, the visible list is the one fetched
\* by the refetch of the last success: every page on screen is the answer of
\* the service in its state after both mutations, none the result of a fetch
\* started before the second success.
C11_LastRefetchDeterminesList ==
    (/\ ServerChanges(server) >= 2
     /\ muts = EmptyBag /\ InFlight = EmptyBag /\ status = "success")
    => \A k \in 1..Len(pages) : FreshPage(server, data, k)

\* the page index getTodos works with: pageParam, 1 when it is undefined
PageIndex(p) == IF p = Undefined THEN 1 ELSE p

\* getTodos returned a page for a response that reports a total count
ListPageReturned ==
    /\ call.op = "getTodos" /\ call.done /\ ~call.result.threw
    /\ call.total # Undefined

\* C12: for every page index pageParam >= 1 and every total count reported in
\* the x-total-count header, getTodos returns hasNextPage = (pageParam * 10 <
\* totalCount), nextCursor = pageParam + 1 when it holds and no nextCursor
\* otherwise.
C12_HasNextAndCursor ==
    (ListPageReturned /\ PageIndex(call.pageParam) >= 1) =>
        LET p == PageIndex(call.pageParam)
            page == call.result.page
        IN  /\ page.hasNextPage = IF p * 10 < call.total THEN "true" ELSE "false"
            /\ page.nextCursor = IF p * 10 < call.total THEN p + 1 ELSE Undefined
            /\ page.todos = call.response.body

\* C12 witness: a page index whose pages end exactly at the total count (no
\* next page), returned by getTodos.
C12_Witness ==
    /\ ListPageReturned
    /\ call.pageParam >= 1 /\ call.pageParam * 10 = call.total
    /\ call.result.page.nextCursor = Undefined

\* the message the contract gives the error of each operation
MessageOf(op) ==
    IF op = "getTodos" THEN "Failed to fetch todos"
    ELSE IF op = "createTodo" THEN "Failed to create todo"
    ELSE IF op = "toggleTodo" THEN "Failed to update todo"
    ELSE "Failed to delete todo"

\* C13: each of the four gateway operations throws an error with its own
\* message exactly when the response status is not a successful one (outside
\* 200..299), the same for a 4xx as for a 5xx, and returns a result without
\* error on every successful status.
C13_ErrorOnFailureStatus ==
    call.done =>
        LET failed == call.response.status < 200 \/ call.response.status > 299
        IN  /\ call.result.threw <=> failed
            /\ failed => /\ call.result.message = MessageOf(call.op)
                          /\ DOMAIN call.result = {"threw", "message"}
            /\ ~failed =>
                  /\ "message" \notin DOMAIN call.result
                  /\ call.op \in {"createTodo", "toggleTodo"} =>
                        call.result.value = call.response.body
                  /\ call.op = "getTodos" =>
                        call.result.page.todos = call.response.body

\* C13 witness: deleteTodo threw on a 404 answer.
C13_Witness ==
    /\ call.done /\ call.op = "deleteTodo"
    /\ call.response.status = 404
    /\ call.result.threw /\ call.result.message = "Failed to delete todo"

\* this step sends mutation request m
Sends(m) == CopiesIn(m, muts') > CopiesIn(m, muts)

\* this step delivers the success of mutation request m
Succeeds(m) == last' = "mutationOk" /\ CopiesIn(m, muts') < CopiesIn(m, muts)

\* the todos of sequence ts with id i
WithId(ts, i) == {ts[k] : k \in {j \in 1..Len(ts) : ts[j].id = i}}

\* a stored todo whose completed is not the value it had at first (created
\* todos, which bear the title typed, start uncompleted)
Flipped(t) ==
    t.completed # (IF t.title = InitTodo(t.id).title
                   THEN InitTodo(t.id).completed ELSE FALSE)

\* C14: toggling a visible todo sends a PATCH for its id whose completed is
\* the negation of the value the todo has in the cache, and leaves the cached
\* todo as it is; the success of the toggle stores that value (the service
\* reflects writes immediately); and when a refetch started by an
\* invalidation settles, the refetched data holds every todo the service
\* stores flipped, under the same id with the flipped value, and shows no
\* todo with a value other than the stored one.
C14_ToggleFlipsCompleted ==
    [][/\ \A m \in BagToSet(muts') :
            (m.op = "toggle" /\ Sends(m)) =>
                /\ \E t \in WithId(Visible(Client), m.id) :
                        m.completed = ~t.completed
                /\ pages' = pages
                /\ server' = server
       /\ \A m \in BagToSet(muts) :
            (m.op = "toggle" /\ Succeeds(m)) =>
                /\ WithId(server', m.id) # {}
                /\ \A t \in WithId(server', m.id) : t.completed = m.completed
       /\ RefetchSettles =>
            /\ \A k \in 1..Len(server') :
                    Flipped(server'[k]) =>
                        server'[k] \in WithId(FlatMap(pages'), server'[k].id)
            /\ \A k \in 1..Len(FlatMap(pages')) :
                    FlatMap(pages')[k] \in WithId(server', FlatMap(pages')[k].id)]_vars

\* C14 witness: the only mutation was a toggle of todo 1 (uncompleted at
\* first); it succeeded, the refetch settled and the list shows todo 1
\* completed.
C14_Witness ==
    /\ nMut = 1 /\ muts = EmptyBag
    /\ last = "listOk" /\ status = "success" /\ fetchStatus = "idle"
    /\ Visible(Client) # <<>>
    /\ Visible(Client)[1] = [InitTodo(1) EXCEPT !.completed = TRUE]
    /\ server[1] = Visible(Client)[1]

\* a stored todo that the client created (it bears the title typed)
Created(t) == t.title # InitTodo(t.id).title

\* the page of the service that a request with page parameter n is answered
\* with (0: an empty page)
ServedPage(n) ==
    IF n >= 1 THEN n ELSE IF service.pageZero = "first" THEN 1 ELSE 0

\* position k of the service's list lies on the page served for parameter n
Covers(n, k) ==
    (ServedPage(n) - 1) * limit < k /\ k <= ServedPage(n) * limit

\* C15 as stated: once a todo with a non-empty title has been created and a
\* refetch started by an invalidation settles, the page-1 result set (the
\* first page of the refetched data) holds an item with that title and
\* completed = false, whatever the number of todos stored before.
C15_CreatedOnFirstPage ==
    [][(/\ RefetchSettles
        /\ \E k \in 1..Len(server') : Created(server'[k]) /\ ~server'[k].completed)
       => \E i \in 1..Len(pages'[1].todos) :
             /\ Created(pages'[1].todos[i])
             /\ ~pages'[1].todos[i].completed]_vars

\* C15 amended: a submit sends a create request with the title typed and no
\* completed flag set; its success stores the todo behind the todos stored
\* before and starts a refetch; and when a refetch settles, a created todo is
\* in the refetched data, as the service stores it, exactly when its position
\* lies on one of the refetched pages: on page 1 when fewer than 10 todos
\* precede it, else on a later page, which is refetched only if it was loaded.
C15_CreatedWhereStored ==
    [][/\ \A m \in BagToSet(muts') :
            (m.op = "create" /\ Sends(m)) =>
                /\ m.title = newTodo /\ trim(newTodo) # <<>>
                /\ ~m.completed
       /\ \A m \in BagToSet(muts) :
            (m.op = "create" /\ Succeeds(m)) =>
                /\ Len(server') = Len(server) + 1
                /\ SubSeq(server', 1, Len(server)) = server
                /\ Last(server').title = m.title /\ ~Last(server').completed
                /\ StartsFromFirstPage
       /\ RefetchSettles =>
            \A k \in 1..Len(server') :
                Created(server'[k]) =>
                    (server'[k] \in WithId(FlatMap(pages'), server'[k].id)
                     <=> \E j \in 1..Len(pages') : Covers(pageParams'[j], k))]_vars

\* C15 witness: a todo was created behind fewer than 10 others, the refetch
\* settled and the first page shows it, uncompleted, as the last item.
C15_Witness ==
    /\ last = "listOk" /\ status = "success" /\ fetchStatus = "idle"
    /\ Len(server) > 1 /\ Created(Last(server)) /\ ~Last(server).completed
    /\ pages[1].todos # <<>>
    /\ Last(pages[1].todos) = Last(server)

\* C16: on each transition of the sentinel from out of view to in view with
\* hasNextPage true, fetchNextPage is signalled and exactly one page request
\* results, the request for the page after the last one; while the sentinel
\* stays in view and no page arrives, no further next-page request is issued.
C16_OneRequestPerTransition ==
    [][/\ (~inView /\ inView' /\ hasNextPage) =>
            /\ live' = <<Request(NextPageParam(variant, data), Len(pages) + 1,
                                 Len(pages) + 1, "forward")>>
            /\ BagCardinality(InFlight') = BagCardinality(InFlight) + 1
       /\ (inView /\ inView' /\ last' # "listOk") => ~Issues("forward")]_vars

\* C16 witness: the sentinel is in view with more pages to load and the one
\* next-page request is on the wire.
C16_Witness ==
    /\ inView /\ hasNextPage /\ last = "other"
    /\ live # <<>> /\ live[1].dir = "forward"
    /\ BagCardinality(InFlight) = 1

\* every todo the service stores is on screen
AllVisible == \A k \in 1..Len(server) : WithId(Visible(Client), server[k].id) # {}

\* C17: if the sentinel stays in view and every page fetch succeeds, the list
\* comes to hold every page without a further visibility transition. Stated
\* on finite runs: in a state with the sentinel in view, every fetch so far
\* successful and no request left on the wire, nothing but a visibility
\* transition can happen any more, so the list must be complete there:
\* hasNextPage false and all the service's items visible.
C17_LoadsEveryPage ==
    (inView /\ status = "success" /\ InFlight = EmptyBag)
    => (~hasNextPage /\ AllVisible)

\* C18: in every reachable state, those with an invalidation during a
\* next-page fetch included, the cached page sequence is page 1, page 2, ...,
\* page k of the service in that order: the k-th cached page was served for
\* page index k, none skipped, none repeated.
C18_ContiguousPrefix ==
    /\ Len(pageParams) = Len(pages)
    /\ \A k \in 1..Len(pages) : ServedPage(pageParams[k]) = k

\* this step sends a toggle request for the todo with id i
SendsToggle(i) ==
    \E m \in BagToSet(muts') : m.op = "toggle" /\ m.id = i /\ Sends(m)

\* C19: a toggle leaves the cached todo as it is, so a second toggle of the
\* same todo, triggered while the cache still shows the value the first one
\* read, sends the same PATCH value again; each success stores the value
\* sent, so after both the service holds the negation of the value rendered
\* at first (the second success changes nothing), not that value restored.
C19_SameValueTwice ==
    [][/\ \A m \in BagToSet(muts) :
            (/\ m.op = "toggle" /\ SendsToggle(m.id)
             /\ \E t \in WithId(Visible(Client), m.id) : t.completed = ~m.completed)
            => /\ CopiesIn(m, muts') = CopiesIn(m, muts) + 1
               /\ BagCardinality(muts') = BagCardinality(muts) + 1
       /\ \A i \in {t.id : t \in {server[k] : k \in 1..Len(server)}} :
            SendsToggle(i) => pages' = pages /\ Visible(Client') = Visible(Client)
       /\ \A m \in BagToSet(muts) :
            (m.op = "toggle" /\ Succeeds(m)) =>
                /\ \A t \in WithId(server', m.id) : t.completed = m.completed
                /\ (\A t \in WithId(server, m.id) : t.completed = m.completed)
                      => server' = server]_vars

\* C19 witness: two toggles of todo 1, both sent while it was shown
\* uncompleted, have both succeeded (the refetch of the first success was
\* cancelled by the second, whose refetch is running): the service holds
\* todo 1 completed and nothing else changed, the cache still shows it
\* uncompleted.
C19_Witness ==
    /\ nMut = 2 /\ muts = EmptyBag /\ last = "mutationOk"
    /\ server # <<>>
    /\ server = [InitServer(Len(server)) EXCEPT ![1].completed = TRUE]
    /\ Visible(Client)[1] = InitTodo(1)
    /\ live # <<>> /\ live[1].dir = "none"
    /\ \E r \in BagToSet(stale) : r.dir = "none"

\* a successful list response without the x-total-count header, for page
\* parameter p
HeaderlessResponses(p) ==
    {Response(200, b, NoHeader) : b \in ServerPage(server, PageIndex(p))}

\* C20: when a successful list response carries no x-total-count header,
\* getTodos returns the items of the page with a falsy hasNextPage and no
\* nextCursor, for every pageParam, and raises no error; so, with a service
\* that never sends the header, every cached page is without cursor, the
\* cache reports hasNextPage = false, no next-page request is ever issued,
\* and the arrival of a page leaves the query in success without error.
C20_NoHeaderNoNextPage ==
    [][/\ \A p \in PageParams :
            \A response \in HeaderlessResponses(p) :
                getTodos(p, response) =
                    [threw |-> FALSE,
                     page |-> [todos |-> response.body, hasNextPage |-> "null",
                               nextCursor |-> Undefined]]
       /\ (~service.totalCount) =>
            /\ \A k \in 1..Len(pages') :
                    /\ pages'[k].hasNextPage \in {"null", "false"}
                    /\ pages'[k].nextCursor = Undefined
            /\ ~hasNextPageC(variant', Client')
            /\ ~Issues("forward")
            /\ \A r \in BagToSet(InFlight') : r.dir = "none" /\ r.index = 1
            /\ (last' = "listOk") =>
                  /\ status' = "success" /\ error' = NoError
                  /\ Visible(Client') = Last(pages').todos]_vars

\* C20 witness: the service holds more than one page of todos and sends no
\* header; the first page is loaded, the sentinel is in view, hasNextPage is
\* false and nothing is on the wire.
C20_Witness ==
    /\ ~service.totalCount /\ Len(server) > limit
    /\ status = "success" /\ Len(pages) = 1 /\ pages[1].hasNextPage = "null"
    /\ inView /\ ~hasNextPage /\ InFlight = EmptyBag

\* C21: submitting the form while the input is empty or holds only
\* whitespace issues no create request and leaves the input, the cache, the
\* service and the visible list as they were; a create request is issued
\* only in a submit, for the input as typed, and only when that input is
\* non-empty after trimming.
C21_BlankSubmitDoesNothing ==
    [][/\ (last' = "submit" /\ trim(newTodo) = <<>>) =>
            /\ muts' = muts /\ nMut' = nMut
            /\ newTodo' = newTodo
            /\ Client' = Client /\ InFlight' = InFlight
            /\ server' = server
            /\ Visible(Client') = Visible(Client)
       /\ \A m \in BagToSet(muts') :
            (m.op = "create" /\ Sends(m)) =>
                /\ last' = "submit"
                /\ trim(newTodo) # <<>>
                /\ m = createTodo(newTodo)
                /\ BagCardinality(muts') = BagCardinality(muts) + 1]_vars

\* C21 witness: the form was submitted with a blank in the input while a
\* create of an earlier submit is on the wire: still one request, the blank
\* in the input, the list on screen.
C21_Witness ==
    /\ last = "submit" /\ newTodo = <<" ">>
    /\ View(Client) = "list"
    /\ nMut = 1 /\ BagCardinality(muts) = 1
    /\ \E m \in BagToSet(muts) : m.op = "create"

====
